---------------------------- MODULE Spec2Model ----------------------------
(***************************************************************************)
(* Model of the Windows event-log sensor component                         *)
(* (src/src/models/logging.py, class Logging).                             *)
(*                                                                         *)
(* The state is the three configuration fields of one Logging object, the  *)
(* capability of the platform module (whether win32evtlog has an attribute *)
(* FormatMessage), and a record of the last call made on the object: which *)
(* entry point it was, what it was given, what it returned or raised, and  *)
(* the platform calls it made, in order.                                   *)
(*                                                                         *)
(* Every entry point is one atomic action: the host runs them as tasks of  *)
(* one cooperative event loop, reconfigure is a plain function and         *)
(* get_readings, though declared async, contains no await, so no other     *)
(* task runs between its first and its last statement.  After a call the   *)
(* host takes its result (Deliver) and the record of the call is dropped;  *)
(* the fields of the object stay as the call left them.                    *)
(***************************************************************************)
EXTENDS Integers, Sequences, FiniteSets, TLC

VARIABLES
    server,            \* self.server
    log_type,          \* self.log_type
    num_entries,       \* self.num_entries
    hasFormatMessage,  \* hasattr(win32evtlog, "FormatMessage")
    applied,           \* history: the fields as left by __init__ or by the last
                       \* reconfigure that ran to completion
    op,                \* the entry point called last, "idle" once its result is taken
    config,            \* config.attributes.fields given to the last reconfigure
    pre,               \* the fields as they were when the last call started
    plat,              \* what the platform did during the last get_readings
    readings,          \* the mapping returned by the last get_readings
    calls,             \* the platform calls the last get_readings made, in order
    failure,           \* the exception raised inside the try block, or NoExc
    raised,            \* the exception the last call let out to its caller, or NoExc
    logged             \* the lines the last call wrote to self.logger

vars == <<server, log_type, num_entries, hasFormatMessage, applied, op, config,
          pre, plat, readings, calls, failure, raised, logged>>

---------------------------------------------------------------------------
(* Bounds of the model.                                                    *)

\* The longest sequence of entries one ReadEventLog call returns.
MaxEvents == 4

---------------------------------------------------------------------------
(* Exceptions.                                                             *)

NoExc == [type |-> "none", msg |-> ""]

Exc(t, m) == [type |-> t, msg |-> m]

\* The classes derived from Exception that the calls of this module raise.
ExceptionClasses == {"pywintypes.error", "AttributeError", "ValueError",
                     "NotImplementedError"}

\* str(e)
StrExc(e) == e.msg

---------------------------------------------------------------------------
(* Configuration objects: config.attributes.fields is a protobuf map from  *)
(* field names to Value messages.  Reading string_value of a Value that    *)
(* holds a number gives "", and number_value of one that holds a string    *)
(* gives 0.0.  A number is kept as a count of halves, so that 0.5 and      *)
(* -1.5 are inputs; NaN is a number too.                                   *)

Num(h) == [nan |-> FALSE, halves |-> h]

NaN == [nan |-> TRUE, halves |-> 0]

\* The float equal to the integer i.
IntNum(i) == Num(2 * i)

StringValue(s) == [string_value |-> s, number_value |-> Num(0)]

NumberValue(x) == [string_value |-> "", number_value |-> x]

FieldNames == {"server", "log_type", "num_entries"}

\* The values the host may send for each field.
FieldValues(k) ==
    CASE k = "server"      -> {StringValue(""), StringValue("HOST1")}
      [] k = "log_type"    -> {StringValue(""), StringValue("System")}
      [] k = "num_entries" -> {NumberValue(Num(0)), NumberValue(Num(1)),
                               NumberValue(Num(6)), NumberValue(Num(-2)),
                               NumberValue(NaN), StringValue("7")}

AllValues == UNION {FieldValues(k) : k \in FieldNames}

Configs ==
    UNION {{f \in [D -> AllValues] : \A k \in D : f[k] \in FieldValues(k)} :
           D \in SUBSET FieldNames}

EmptyConfig == [k \in {} |-> StringValue("")]

\* Python's None.
None == "<None>"

\* fields.get(k): the Value, or None when the map has no such key.
Get(fields, k) == IF k \in DOMAIN fields THEN [none |-> FALSE, value |-> fields[k]]
                  ELSE [none |-> TRUE, value |-> StringValue("")]

\* s or d, for strings: the empty string is falsy.
StrOr(s, d) == IF s = "" THEN d ELSE s

\* x or d, for floats: 0.0 is falsy, NaN and every other number are truthy.
NumOr(x, d) == IF ~x.nan /\ x.halves = 0 THEN d ELSE x

\* int(x) for a float: truncation towards zero.
IntOf(x) == IF x.halves >= 0 THEN x.halves \div 2 ELSE -((-x.halves) \div 2)

DefaultServer == "localhost"

DefaultLogType == "Application"

DefaultNumEntries == 5

NoneAttr(name) == Exc("AttributeError",
                      "'NoneType' object has no attribute '" \o name \o "'")

\* The three assignments of reconfigure, in order; each may raise, and the
\* assignments made before it stand.  old is <<server, log_type, num_entries>>.
ReconfigureFields(fields, old) ==
    LET s == Get(fields, "server")
        l == Get(fields, "log_type")
        n == Get(fields, "num_entries")
    IN  IF s.none
        THEN [fields |-> old, exc |-> NoneAttr("string_value")]
        ELSE LET srv == StrOr(s.value.string_value, DefaultServer) IN
        IF l.none
        THEN [fields |-> <<srv, old[2], old[3]>>, exc |-> NoneAttr("string_value")]
        ELSE LET lt == StrOr(l.value.string_value, DefaultLogType) IN
        IF n.none
        THEN [fields |-> <<srv, lt, old[3]>>, exc |-> NoneAttr("number_value")]
        ELSE LET x == NumOr(n.value.number_value, IntNum(DefaultNumEntries)) IN
        IF x.nan
        THEN [fields |-> <<srv, lt, old[3]>>,
              exc |-> Exc("ValueError", "cannot convert float NaN to integer")]
        ELSE [fields |-> <<srv, lt, IntOf(x)>>, exc |-> NoExc]


---------------------------------------------------------------------------
(* The platform: win32evtlog.  An entry is a PyEventLogRecord; EventID is  *)
(* the 32-bit native identifier as the binding delivers it, a signed       *)
(* integer, so 0x800A0002 arrives as 0x800A0002 - 2^32.                    *)

\* An entry whose identifier is 0x800A0002, read as a signed 32-bit integer.
EventA == [TimeGenerated |-> 1700000001, SourceName |-> "Service Control Manager",
           EventID |-> -2146828286, EventType |-> 1, EventCategory |-> 0]

\* An entry whose identifier is 0x40001B58: a bit of the upper half set above
\* the 16-bit code 0x1B58 = 7000.
EventB == [TimeGenerated |-> 1700000002, SourceName |-> "MsiInstaller",
           EventID |-> 1073748824, EventType |-> 4, EventCategory |-> 3]

\* An entry that lacks the attributes after SourceName.
Malformed == [TimeGenerated |-> 1700000003, SourceName |-> "broken"]

Attributes == {"TimeGenerated", "SourceName", "EventID", "EventType", "EventCategory"}

\* The text win32evtlog.FormatMessage returns for an entry.
FormatMessage(event) == "message of " \o event.SourceName

\* What the platform does during one get_readings: the exception OpenEventLog,
\* ReadEventLog and CloseEventLog raise (NoExc: none), the entries ReadEventLog
\* returns, and which FormatMessage call raises (0: none).
Plat(o, r, ev, f, c) == [open |-> o, read |-> r, events |-> ev, format |-> f, close |-> c]

NoPlat == Plat(NoExc, NoExc, <<>>, 0, NoExc)

WinError(m) == Exc("pywintypes.error", m)

GoodEvents == UNION {[1..m -> {EventA, EventB}] : m \in 0..MaxEvents}

WithMalformed(ev, k) == [i \in 1..Len(ev) |-> IF i = k THEN Malformed ELSE ev[i]]

Plats ==
    {Plat(WinError("access denied"), NoExc, <<>>, 0, NoExc),
     Plat(NoExc, WinError("The handle is invalid."), <<>>, 0, NoExc)}
    \cup {Plat(NoExc, NoExc, ev, 0, NoExc) : ev \in GoodEvents}
    \cup {Plat(NoExc, NoExc, ev, 0, WinError("close failed")) : ev \in GoodEvents}
    \cup UNION {{Plat(NoExc, NoExc, WithMalformed(ev, k), 0, NoExc) : k \in 1..Len(ev)} :
                ev \in GoodEvents}
    \cup UNION {{Plat(NoExc, NoExc, ev, k, NoExc) : k \in 1..Len(ev)} :
                ev \in GoodEvents}

---------------------------------------------------------------------------
(* get_readings.                                                           *)

Min(a, b) == IF a <= b THEN a ELSE b

Max(a, b) == IF a >= b THEN a ELSE b

\* events[:n]: a negative n counts from the end.
Slice(events, n) ==
    LET stop == IF n >= 0 THEN Min(n, Len(events)) ELSE Max(0, Len(events) + n)
    IN  SubSeq(events, 1, stop)

\* x & y for y >= 0 and any integer x, bit by bit (two's complement).
RECURSIVE BitAnd(_, _)
BitAnd(x, y) ==
    IF y = 0 THEN 0
    ELSE (x % 2) * (y % 2) + 2 * BitAnd(x \div 2, y \div 2)

\* 0xFFFF
LowWord == 65535

\* The identifier copied without the mask.
UnmaskedEventID(id) == id

\* event.EventID & 0xFFFF
MaskedEventID(id) == BitAnd(id, LowWord)

\* The message left out whatever the platform can do.
MessageNeverFormatted(hasFmt, event) == None

\* win32evtlog.FormatMessage(event) if hasattr(win32evtlog, "FormatMessage") else None
MessageOf(hasFmt, event) == IF hasFmt THEN FormatMessage(event) ELSE None

\* The dict built for one entry.
Record(event, hasFmt) ==
    [TimeGenerated |-> ToString(event.TimeGenerated),
     SourceName    |-> event.SourceName,
     EventID       |-> MaskedEventID(event.EventID),
     EventType     |-> event.EventType,
     EventCategory |-> event.EventCategory,
     Message       |-> MessageOf(hasFmt, event)]

OpenCall(srv, lt) == <<"OpenEventLog", srv, lt>>

ReadCall == <<"ReadEventLog">>

FormatCall(i) == <<"FormatMessage", i>>

CloseCall == <<"CloseEventLog">>

\* The for loop from its i-th iteration on: the records appended, the platform
\* calls made and the exception that ended it (NoExc: it ran to the end).
RECURSIVE Loop(_, _, _, _)
Loop(events, i, hasFmt, p) ==
    IF i > Len(events)
    THEN [logs |-> <<>>, calls |-> <<>>, exc |-> NoExc]
    ELSE LET event == events[i] IN
         IF ~(Attributes \subseteq DOMAIN event)
         THEN [logs |-> <<>>, calls |-> <<>>,
               exc |-> Exc("AttributeError", "object has no attribute 'EventID'")]
         ELSE IF hasFmt /\ p.format = i
         THEN [logs |-> <<>>, calls |-> <<FormatCall(i)>>,
               exc |-> WinError("format failed")]
         ELSE LET rest == Loop(events, i + 1, hasFmt, p) IN
              [logs  |-> <<Record(event, hasFmt)>> \o rest.logs,
               calls |-> (IF hasFmt THEN <<FormatCall(i)>> ELSE <<>>) \o rest.calls,
               exc   |-> rest.exc]

\* The try block: the list logs as it stands when the block ends, the platform
\* calls made, and the exception that ended the block (NoExc: none).
TryBlock(srv, lt, n, hasFmt, p) ==
    IF p.open # NoExc
    THEN [logs |-> <<>>, calls |-> <<OpenCall(srv, lt)>>, exc |-> p.open]
    ELSE IF p.read # NoExc
    THEN [logs |-> <<>>, calls |-> <<OpenCall(srv, lt), ReadCall>>, exc |-> p.read]
    ELSE LET body == Loop(Slice(p.events, n), 1, hasFmt, p)
             sofar == <<OpenCall(srv, lt), ReadCall>> \o body.calls
         IN  IF body.exc # NoExc
             THEN [logs |-> body.logs, calls |-> sofar, exc |-> body.exc]
             ELSE [logs |-> body.logs, calls |-> Append(sofar, CloseCall),
                   exc |-> p.close]

\* A handler for the platform's own error class only.
CatchesPlatformErrorsOnly(e) == e.type = "pywintypes.error"

\* except Exception
Catches(e) == e.type \in ExceptionClasses

\* The error appended to the records collected so far.
ErrorAppended(logs, e) == Append(logs, [error |-> StrExc(e)])

\* readings["windows_logs"] as the except clause sets it.
ErrorReadings(logs, e) == <<[error |-> StrExc(e)]>>

\* Nothing returned: the call raised.
NoReturn == <<>>

\* The whole of get_readings on the fields <<srv, lt, n>>.
GetReadingsResult(srv, lt, n, hasFmt, p) ==
    LET t == TryBlock(srv, lt, n, hasFmt, p) IN
    IF t.exc = NoExc
    THEN [readings |-> [windows_logs |-> t.logs], calls |-> t.calls,
          failure |-> NoExc, raised |-> NoExc, logged |-> <<>>]
    ELSE IF Catches(t.exc)
    THEN [readings |-> [windows_logs |-> ErrorReadings(t.logs, t.exc)],
          calls |-> t.calls, failure |-> t.exc, raised |-> NoExc,
          logged |-> <<<<"error", "Error reading Windows logs: " \o StrExc(t.exc)>>>>]
    ELSE [readings |-> NoReturn, calls |-> t.calls, failure |-> t.exc,
          raised |-> t.exc, logged |-> <<>>]

---------------------------------------------------------------------------
(* The entry points.                                                       *)

Fields == <<server, log_type, num_entries>>

\* Logging.__init__
Init ==
    /\ server = DefaultServer
    /\ log_type = DefaultLogType
    /\ num_entries = DefaultNumEntries
    /\ hasFormatMessage \in BOOLEAN
    /\ applied = <<DefaultServer, DefaultLogType, DefaultNumEntries>>
    /\ op = "idle"
    /\ config = EmptyConfig
    /\ pre = <<DefaultServer, DefaultLogType, DefaultNumEntries>>
    /\ plat = NoPlat
    /\ readings = NoReturn
    /\ calls = <<>>
    /\ failure = NoExc
    /\ raised = NoExc
    /\ logged = <<>>

\* Logging.reconfigure
Reconfigure ==
    \E fields \in Configs :
        LET r == ReconfigureFields(fields, Fields) IN
        /\ op = "idle"
        /\ server' = r.fields[1]
        /\ log_type' = r.fields[2]
        /\ num_entries' = r.fields[3]
        /\ applied' = IF r.exc = NoExc THEN r.fields ELSE applied
        /\ op' = "reconfigure"
        /\ config' = fields
        /\ pre' = Fields
        /\ raised' = r.exc
        /\ logged' = IF r.exc = NoExc THEN <<<<"info", "Configured Logging module">>>>
                     ELSE <<>>
        /\ plat' = NoPlat
        /\ readings' = NoReturn
        /\ calls' = <<>>
        /\ failure' = NoExc
        /\ UNCHANGED hasFormatMessage

\* Logging.get_readings
GetReadings ==
    \E p \in Plats :
        LET r == GetReadingsResult(server, log_type, num_entries, hasFormatMessage, p) IN
        /\ op = "idle"
        /\ op' = "get_readings"
        /\ plat' = p
        /\ pre' = Fields
        /\ readings' = r.readings
        /\ calls' = r.calls
        /\ failure' = r.failure
        /\ raised' = r.raised
        /\ logged' = r.logged
        /\ config' = EmptyConfig
        /\ UNCHANGED <<server, log_type, num_entries, hasFormatMessage, applied>>

\* do_command and get_geometries: log an error and raise NotImplementedError.
Unimplemented(name) ==
    /\ op = "idle"
    /\ op' = name
    /\ pre' = Fields
    /\ raised' = Exc("NotImplementedError", "")
    /\ logged' = <<<<"error", name \o " is not implemented">>>>
    /\ config' = EmptyConfig
    /\ plat' = NoPlat
    /\ readings' = NoReturn
    /\ calls' = <<>>
    /\ failure' = NoExc
    /\ UNCHANGED <<server, log_type, num_entries, hasFormatMessage, applied>>

\* Logging.do_command
DoCommand == Unimplemented("do_command")

\* Logging.get_geometries
GetGeometries == Unimplemented("get_geometries")

\* The host takes the result of the call; the object is ready for the next one.
Deliver ==
    /\ op # "idle"
    /\ op' = "idle"
    /\ config' = EmptyConfig
    /\ pre' = Fields
    /\ plat' = NoPlat
    /\ readings' = NoReturn
    /\ calls' = <<>>
    /\ failure' = NoExc
    /\ raised' = NoExc
    /\ logged' = <<>>
    /\ UNCHANGED <<server, log_type, num_entries, hasFormatMessage, applied>>

Next == Reconfigure \/ GetReadings \/ DoCommand \/ GetGeometries \/ Deliver

Spec == Init /\ [][Next]_vars

---------------------------------------------------------------------------
(* Properties.                                                             *)

\* The last call was a get_readings whose try block ran to its end.
Succeeded == op = "get_readings" /\ failure = NoExc

RecordKeys == {"TimeGenerated", "SourceName", "EventID", "EventType",
               "EventCategory", "Message"}

\* The number of CloseEventLog calls the last get_readings made.
Closes == Cardinality({i \in DOMAIN calls : calls[i][1] = "CloseEventLog"})

\* C1: get_readings never lets an exception out: whatever the platform does at
\* open, read, format or close, and whatever entry it is given, the call returns
\* a mapping whose only key is "windows_logs".
C1_NeverRaises ==
    op = "get_readings" =>
        /\ raised = NoExc
        /\ DOMAIN readings = {"windows_logs"}

\* A get_readings that met a malformed entry and returned all the same.
C1_Witness ==
    /\ op = "get_readings"
    /\ failure.type = "AttributeError"
    /\ raised = NoExc
    /\ DOMAIN readings = {"windows_logs"}

\* C2: the value under "windows_logs" is never a mix: if a step failed it is
\* exactly the one element [error |-> message], the records collected before the
\* failure dropped; if none failed it holds log records only.
C2_NoMixing ==
    op = "get_readings" /\ raised = NoExc =>
        IF failure # NoExc
        THEN readings.windows_logs = <<[error |-> failure.msg]>>
        ELSE \A i \in DOMAIN readings.windows_logs :
                 DOMAIN readings.windows_logs[i] = RecordKeys

\* The second FormatMessage call failed after one record had been collected.
C2_Witness ==
    /\ op = "get_readings"
    /\ hasFormatMessage
    /\ plat.format = 2
    /\ calls[Len(calls)] = FormatCall(2)
    /\ readings.windows_logs = <<[error |-> "format failed"]>>

\* C3 (as claimed): on success, with E the entries the platform returned and
\* n = num_entries, the result has exactly min(n, len(E)) records and the i-th
\* record is built from the i-th entry of E.
C3_TruncationClaim ==
    Succeeded =>
        /\ Len(readings.windows_logs) = Min(num_entries, Len(plat.events))
        /\ \A i \in DOMAIN readings.windows_logs :
               readings.windows_logs[i] = Record(plat.events[i], hasFormatMessage)

\* C4 (as claimed): reconfigure completes without error on any configuration, and
\* every absent field resolves to its default; so an empty configuration gives
\* localhost, Application, 5.
C4_DefaultsClaim ==
    op = "reconfigure" =>
        /\ raised = NoExc
        /\ "server" \notin DOMAIN config => server = DefaultServer
        /\ "log_type" \notin DOMAIN config => log_type = DefaultLogType
        /\ "num_entries" \notin DOMAIN config => num_entries = DefaultNumEntries

\* C5 (as claimed): after any reconfigure call num_entries is positive.
C5_PositiveClaim ==
    op = "reconfigure" => num_entries > 0

\* C6: the EventID of every output record is the native identifier modulo 2^16,
\* a number in 0..65535; 0x800A0002 gives 2.
C6_EventIdMasked ==
    Succeeded =>
        \A i \in DOMAIN readings.windows_logs :
            /\ readings.windows_logs[i].EventID = plat.events[i].EventID % 65536
            /\ readings.windows_logs[i].EventID \in 0..65535
            /\ plat.events[i].EventID = EventA.EventID => readings.windows_logs[i].EventID = 2

\* A result with a record made from the entry whose identifier is 0x800A0002 and
\* one made from the entry whose identifier is 0x40001B58.
C6_Witness ==
    /\ Succeeded
    /\ \E i \in DOMAIN readings.windows_logs :
           plat.events[i].EventID = EventA.EventID /\ readings.windows_logs[i].EventID = 2
    /\ \E i \in DOMAIN readings.windows_logs :
           plat.events[i].EventID = EventB.EventID /\ readings.windows_logs[i].EventID = 7000

\* The fields the data model of the specification derives from a configuration:
\* an absent or empty string gives the default, an absent or non-numeric
\* num_entries, or one that is not a positive integer, gives 5.
Derived(fields) ==
    LET s == Get(fields, "server")
        l == Get(fields, "log_type")
        n == Get(fields, "num_entries")
    IN  <<IF s.none THEN DefaultServer ELSE StrOr(s.value.string_value, DefaultServer),
          IF l.none THEN DefaultLogType ELSE StrOr(l.value.string_value, DefaultLogType),
          IF n.none \/ n.value.number_value.nan \/ IntOf(n.value.number_value) <= 0
          THEN DefaultNumEntries ELSE IntOf(n.value.number_value)>>

\* C7 (as claimed): a reconfigure call that fails partway leaves the three fields
\* either all as they were before the call or all as derived from the new
\* configuration.
C7_WholesaleClaim ==
    op = "reconfigure" /\ raised # NoExc =>
        \/ Fields = pre
        \/ Fields = Derived(config)

\* C8 (as claimed): every record of a successful result has exactly the fields
\* time_generated, source_name, event_id, event_type, event_category, message.
C8_SnakeCaseClaim ==
    Succeeded =>
        \A i \in DOMAIN readings.windows_logs :
            DOMAIN readings.windows_logs[i] =
                {"time_generated", "source_name", "event_id", "event_type",
                 "event_category", "message"}

\* C8 (amended): every record of a successful result has exactly the fields
\* TimeGenerated, SourceName, EventID, EventType, EventCategory, Message, and
\* Message is the platform's formatted text when win32evtlog has FormatMessage
\* and None otherwise.
C8_RecordShape ==
    Succeeded =>
        \A i \in DOMAIN readings.windows_logs :
            /\ DOMAIN readings.windows_logs[i] = RecordKeys
            /\ readings.windows_logs[i].Message =
                   IF hasFormatMessage THEN FormatMessage(plat.events[i]) ELSE None

\* A successful result of two records whose messages are the platform's texts.
C8_Witness ==
    /\ Succeeded
    /\ hasFormatMessage
    /\ Len(readings.windows_logs) = 2
    /\ readings.windows_logs[1].Message = "message of MsiInstaller"
    /\ readings.windows_logs[2].Message = "message of Service Control Manager"

\* C9 (as claimed): CloseEventLog is called exactly once when OpenEventLog
\* succeeded, also when the read or an entry failed, never when it failed, and on
\* success it is the last platform call.
C9_CloseClaim ==
    op = "get_readings" =>
        /\ plat.open = NoExc => Closes = 1
        /\ plat.open # NoExc => Closes = 0
        /\ failure = NoExc => calls[Len(calls)] = CloseCall

\* C10 (as claimed): the server and log type a get_readings passes to
\* OpenEventLog and the count it truncates with all come from one applied
\* configuration, the one last put in force by __init__ or a completed
\* reconfigure.
C10_SnapshotClaim ==
    op = "get_readings" =>
        /\ calls[1] = OpenCall(applied[1], applied[2])
        /\ failure = NoExc =>
               Len(readings.windows_logs) = Len(Slice(plat.events, applied[3]))

=============================================================================
